---- MODULE Spec2Model ----
(***************************************************************************)
(* SSSL (src/sssl.js): the command-line front end (main, showPrompt,       *)
(* validateOptions) and the certificate chain forging pipeline             *)
(* (forgeCertificateChain), as a state machine.                            *)
(*                                                                         *)
(* Certificates, keys and requests are records of the fields node-forge    *)
(* keeps for them.  An RSA signature is symbolic: it records the digest,   *)
(* the signed content and the (n, d) of the private key that made it, and  *)
(* verifies under a public key (n, e) exactly when some well-formed key    *)
(* has that n, e and d.  Paths are sequences of segments, absolute when    *)
(* the first segment is "/".  A Date is [day, ms]: days since 1970-01-01   *)
(* and milliseconds within the day (UTC).                                  *)
(***************************************************************************)
EXTENDS Integers, Sequences, FiniteSets, TLC

VARIABLES
    argv,             \* program.opts(): interactive flag and command options
    env,              \* process.env SSSL_* values
    zone,             \* the host's time zone
    now,              \* the host's clock: the value of the latest reading
    pc,               \* position of the program
    interactive,      \* commandOptions.interactive, once main has read it
    options,          \* the options object handed to validateOptions
    prompts,          \* number of prompt.get rounds so far
    nintendoCAG3,     \* locals of forgeCertificateChain ...
    caPrivateKey,
    caPublicKey,
    forgedCA,
    sitePrivateKey,
    sitePublicKey,
    csr,
    siteCertificate,
    chain,
    keyIdBytes,       \* the Buffer crypto.randomBytes(16) returned in this run
    issuedAt,         \* the instant of the run's first clock read
    written,          \* names whose fs.writeFileSync completed in this run
    failedAt,         \* the stage whose call threw in this run ("" if none)
    error,            \* message of the last error thrown or logged
    disk              \* written output files: path -> content

vars == <<argv, env, zone, now, pc, interactive, options, prompts, nintendoCAG3,
          caPrivateKey, caPublicKey, forgedCA, sitePrivateKey, sitePublicKey,
          csr, siteCertificate, chain, keyIdBytes, issuedAt, written,
          failedAt, error, disk>>

locals == <<nintendoCAG3, caPrivateKey, caPublicKey, forgedCA, sitePrivateKey,
            sitePublicKey, csr, siteCertificate, chain, keyIdBytes, issuedAt>>

-----------------------------------------------------------------------------
(* Bounds of the model *)

\* prompt.get rounds an interactive session is followed for
MaxPrompts == 2

-----------------------------------------------------------------------------
(* Program constants *)

CaKeyBits == 2048
SiteKeyBits == 1024
KeyIdLen == 16
ValidityDays == 3650
MsPerDay == 86400000
MsPerSecond == 1000
AsciiMask == 128

\* an unset local, an absent signature
None == [none |-> TRUE]

\* a falsy path option (undefined, or the empty string a prompt returns)
NoPath == <<>>

-----------------------------------------------------------------------------
(* Paths: path.resolve *)

Cwd == <<"/", "work">>

IsAbsolute(p) == p # <<>> /\ p[1] = "/"

NotDot(s) == s # "."

\* path.resolve(p): relative paths are taken from the working directory,
\* "." segments are dropped
Resolve(p) == SelectSeq(IF IsAbsolute(p) THEN p ELSE Cwd \o p, NotDot)

-----------------------------------------------------------------------------
(* Dates: the calendar arithmetic behind new Date(), getDate and setDate *)

\* one clock reading: days since the epoch and milliseconds within the day
DateOf(day, ms) == [day |-> day, ms |-> ms]

\* a date moved by ms milliseconds, |ms| below one day
AddMs(t, ms) ==
    LET total == t.ms + ms
    IN  IF total < 0 THEN DateOf(t.day - 1, total + MsPerDay)
        ELSE IF total >= MsPerDay THEN DateOf(t.day + 1, total - MsPerDay)
        ELSE DateOf(t.day, total)

\* MakeDay(year, month, 1): the day number of the first of a month
DaysFromCivil(y, m) ==
    LET yy  == IF m <= 2 THEN y - 1 ELSE y
        era == yy \div 400
        yoe == yy - era * 400
        mp  == (m + 9) % 12
        doy == (153 * mp + 2) \div 5
        doe == yoe * 365 + yoe \div 4 - yoe \div 100 + doy
    IN  era * 146097 + doe - 719468

\* YearFromTime, MonthFromTime (1..12) and DateFromTime of a day number
CivilFromDays(z) ==
    LET zz  == z + 719468
        era == zz \div 146097
        doe == zz - era * 146097
        yoe == (doe - doe \div 1460 + doe \div 36524 - doe \div 146096) \div 365
        doy == doe - (365 * yoe + yoe \div 4 - yoe \div 100)
        mp  == (5 * doy + 2) \div 153
        d   == doy - (153 * mp + 2) \div 5 + 1
        m   == IF mp < 10 THEN mp + 3 ELSE mp - 9
        y   == yoe + era * 400 + (IF m <= 2 THEN 1 ELSE 0)
    IN  [year |-> y, month |-> m, date |-> d]

\* LocalTZA: the zone's offset from UTC in force on a day; daylight time runs
\* from the zone's first daylight day to its last, both within one year
LocalTZA(tz, day) ==
    LET c  == CivilFromDays(day)
        md == c.month * 100 + c.date
    IN  IF tz.dstFrom <= md /\ md < tz.dstTo THEN tz.dst ELSE tz.std

\* LocalTime(t)
LocalTime(tz, t) == AddMs(t, LocalTZA(tz, t.day))

\* UTC(t) of a local time
UtcTime(tz, t) == AddMs(t, 0 - LocalTZA(tz, t.day))

\* Date.prototype.getDate(): the day of the month in local time
GetDate(tz, t) == CivilFromDays(LocalTime(tz, t).day).date

\* Date.prototype.setDate(dt): the day of the month of t set to dt in local
\* time, days beyond the month's end running on into the following months
SetDate(tz, t, dt) ==
    LET loc == LocalTime(tz, t)
        c   == CivilFromDays(loc.day)
    IN  UtcTime(tz, DateOf(DaysFromCivil(c.year, c.month) + dt - 1, loc.ms))

\* t2 - t1 as whole days and milliseconds
DateDiff(t2, t1) ==
    IF t2.ms >= t1.ms
    THEN [days |-> t2.day - t1.day, ms |-> t2.ms - t1.ms]
    ELSE [days |-> t2.day - t1.day - 1, ms |-> t2.ms - t1.ms + MsPerDay]

\* the validity window of the site certificate from the two clock readings
\* that lines 254 and 255 take
SiteValidity(tz, now1, now2) ==
    [notBefore |-> now1,
     notAfter  |-> SetDate(tz, now2, GetDate(tz, now1) + ValidityDays)]

-----------------------------------------------------------------------------
(* Clock and time zone of the host *)

UtcZone == [std |-> 0, dst |-> 0, dstFrom |-> 0, dstTo |-> 0]

\* UTC+1, daylight time (UTC+2) from 29 March to 25 October
DstZone == [std |-> 3600000, dst |-> 7200000, dstFrom |-> 329, dstTo |-> 1025]

Zones == {UtcZone, DstZone}

\* instants at which a run may reach the leaf issuer: 2026-11-04 12:00:00.000,
\* 2026-01-31 23:59:59.999 and 2026-03-30 12:00:00.000 (UTC)
Instants ==
    {DateOf(DaysFromCivil(2026, 11) + 3, 43200000),
     DateOf(DaysFromCivil(2026, 1) + 30, 86399999),
     DateOf(DaysFromCivil(2026, 3) + 29, 43200000)}

\* milliseconds the clock may advance between two consecutive readings
Ticks == {0, 1}

\* zone and clock of the host on which interactive sessions are followed
SessionZone == UtcZone

SessionStart == DateOf(DaysFromCivil(2026, 11) + 3, 43200000)

-----------------------------------------------------------------------------
(* RSA keys and signatures (node-forge pki.rsa) *)

\* the key pair pki.rsa.generateKeyPair(bits) returns, for its i-th outcome
GenKeyPair(bits, i) ==
    [privateKey |-> [n |-> bits * 10 + i, e |-> 65537, d |-> bits * 100 + i],
     publicKey  |-> [n |-> bits * 10 + i, e |-> 65537]]

\* the outcomes of key generation that are told apart
KeySeeds == {1}

GenKeyPairs(bits) == {GenKeyPair(bits, i) : i \in KeySeeds}

\* private keys held in files of the host
FileKeyCA == [n |-> 7001, e |-> 3, d |-> 7901]
FileKeySite == [n |-> 5001, e |-> 65537, d |-> 5901]

\* every well-formed private key of the model
KeyUniverse ==
    {FileKeyCA, FileKeySite}
        \cup {kp.privateKey : kp \in GenKeyPairs(CaKeyBits)}
        \cup {kp.privateKey : kp \in GenKeyPairs(SiteKeyBits)}

\* pki.setRsaPublicKey(n, e)
SetRsaPublicKey(n, e) == [n |-> n, e |-> e]

\* the to-be-signed part of a certificate or request: all but the signature
Tbs(obj) == [obj EXCEPT !.signature = None]

\* obj.sign(key, md): the digest is recorded, then the signature is made
\* over the to-be-signed part with the private key's (n, d)
Sign(obj, key, md) ==
    LET withMd == [obj EXCEPT !.md = md]
    IN  [withMd EXCEPT !.signature =
            [md |-> md, n |-> key.n, d |-> key.d, tbs |-> Tbs(withMd)]]

\* an RSA signature verifies under (n, e) when it was made over this content
\* with the private exponent that belongs to (n, e)
Verifies(obj, pub) ==
    /\ obj.signature # None
    /\ pub # None
    /\ obj.signature.tbs = Tbs(obj)
    /\ \E k \in KeyUniverse :
          /\ k.n = pub.n /\ k.e = pub.e
          /\ k.n = obj.signature.n /\ k.d = obj.signature.d

-----------------------------------------------------------------------------
(* Certificates, requests and their encodings (node-forge pki, asn1) *)

Attr(name, value) == [name |-> name, value |-> value]

Ext(name, value) == [name |-> name, critical |-> FALSE, value |-> value]

\* pki.createCertificate()
CreateCertificate ==
    [serialNumber |-> "00",
     validity     |-> [notBefore |-> None, notAfter |-> None],
     issuer       |-> <<>>,
     subject      |-> <<>>,
     publicKey    |-> None,
     extensions   |-> <<>>,
     md           |-> "",
     signature    |-> None]

\* pki.createCertificationRequest()
CreateCertificationRequest ==
    [subject    |-> <<>>,
     publicKey  |-> None,
     attributes |-> <<>>,
     md         |-> "",
     signature  |-> None]

\* a self-signed root with one authorityKeyIdentifier, last in its list
RootA ==
    [serialNumber |-> "0a",
     validity     |-> [notBefore |-> DateOf(16500, 0), notAfter |-> DateOf(24000, 0)],
     issuer       |-> <<Attr("countryName", "US"), Attr("commonName", "Nintendo CA - G3")>>,
     subject      |-> <<Attr("countryName", "US"), Attr("commonName", "Nintendo CA - G3")>>,
     publicKey    |-> [n |-> 9001, e |-> 65537],
     extensions   |-> <<Ext("basicConstraints", "CA:TRUE"),
                        Ext("keyUsage", "keyCertSign"),
                        Ext("authorityKeyIdentifier", "aki-a")>>,
     md           |-> "sha256",
     signature    |-> [md |-> "sha256", n |-> 9001, d |-> 9901, tbs |-> None]]

\* a root issued by another authority, with two authorityKeyIdentifier entries
\* between other extensions, one of them of an unknown type (no name)
RootB ==
    [serialNumber |-> "0b",
     validity     |-> [notBefore |-> DateOf(17000, 1000), notAfter |-> DateOf(25000, 2000)],
     issuer       |-> <<Attr("commonName", "Nintendo Root")>>,
     subject      |-> <<Attr("commonName", "Nintendo CA - G3")>>,
     publicKey    |-> [n |-> 9002, e |-> 3],
     extensions   |-> <<Ext("authorityKeyIdentifier", "aki-b1"),
                        Ext("subjectKeyIdentifier", "ski-b"),
                        Ext("", "1.2.3.4"),
                        Ext("authorityKeyIdentifier", "aki-b2"),
                        Ext("basicConstraints", "CA:TRUE")>>,
     md           |-> "sha1",
     signature    |-> [md |-> "sha1", n |-> 9003, d |-> 9903, tbs |-> None]]

\* a request made elsewhere, for another name and key
SuppliedCsr ==
    [subject    |-> <<Attr("commonName", "other.example"), Attr("organizationName", "Other")>>,
     publicKey  |-> [n |-> 6001, e |-> 65537],
     attributes |-> <<Attr("challengePassword", "secret")>>,
     md         |-> "sha256",
     signature  |-> [md |-> "sha256", n |-> 6001, d |-> 6901, tbs |-> None]]

\* a Date as DER writes it: UTCTime and GeneralizedTime hold whole seconds
DerTime(t) ==
    IF t = None THEN None ELSE DateOf(t.day, (t.ms \div MsPerSecond) * MsPerSecond)

\* the DER structure of a certificate: its fields, times in whole seconds
CertificateToDer(cert) ==
    [cert EXCEPT !.validity = [notBefore |-> DerTime(cert.validity.notBefore),
                               notAfter  |-> DerTime(cert.validity.notAfter)]]

\* pki.certificateToPem, pki.privateKeyToPem, pki.certificationRequestToPem
CertificateToPem(cert) ==
    [enc |-> "pem", label |-> "CERTIFICATE", body |-> CertificateToDer(cert)]

PrivateKeyToPem(key) ==
    [enc |-> "pem", label |-> "RSA PRIVATE KEY", body |-> key]

CertificationRequestToPem(req) ==
    [enc |-> "pem", label |-> "CERTIFICATE REQUEST", body |-> req]

\* a file that is neither DER nor PEM
Junk == [enc |-> "junk", label |-> "", body |-> None]

\* pki.certificateFromPem / asn1.fromDer + pki.certificateFromAsn1: whether
\* the content decodes as a certificate under the declared format
DecodesAsCertificate(content, format) ==
    content.enc = format /\ content.label = "CERTIFICATE"

\* pki.privateKeyFromPem, pki.certificationRequestFromPem
ParsesAsPem(content, label) == content.enc = "pem" /\ content.label = label

-----------------------------------------------------------------------------
(* The host's file system before the program runs *)

G3DerPath == Cwd \o <<"CACERT_NINTENDO_CA_G3.der">>

InputFiles ==
    (G3DerPath :> [enc |-> "der", label |-> "CERTIFICATE", body |-> RootA])
    @@ (Cwd \o <<"g3.pem">> :> CertificateToPem(RootB))
    @@ (Cwd \o <<"junk.der">> :> Junk)
    @@ (Cwd \o <<"ca.key">> :> PrivateKeyToPem(FileKeyCA))
    @@ (Cwd \o <<"site.key">> :> PrivateKeyToPem(FileKeySite))
    @@ (Cwd \o <<"junk.key">> :> Junk)
    @@ (Cwd \o <<"req.csr">> :> CertificationRequestToPem(SuppliedCsr))
    @@ (Cwd \o <<"junk.csr">> :> Junk)

Directories == {Cwd, Cwd \o <<"out">>}

\* fs.existsSync(p)
ExistsSync(p, d) ==
    p \in DOMAIN InputFiles \/ p \in Directories \/ p \in DOMAIN d

\* fs.readFileSync(p): an output written earlier shadows nothing here, the
\* inputs and the outputs have different names
ReadFileSync(p, d) == IF p \in DOMAIN d THEN d[p] ELSE InputFiles[p]

-----------------------------------------------------------------------------
(* Options: optionsConfig, main's merge, validateOptions *)

\* optionsConfig[...].default
DefaultOptions ==
    [nintendo_ca_g3_path   |-> <<".", "CACERT_NINTENDO_CA_G3.der">>,
     nintendo_ca_g3_format |-> "der",
     ca_private_key_path   |-> NoPath,
     site_private_key_path |-> NoPath,
     csr_path              |-> NoPath,
     common_name           |-> "*",
     output_folder_path    |-> <<".">>]

\* no option given: every value undefined
NoOptions ==
    [nintendo_ca_g3_path   |-> NoPath,
     nintendo_ca_g3_format |-> "",
     ca_private_key_path   |-> NoPath,
     site_private_key_path |-> NoPath,
     csr_path              |-> NoPath,
     common_name           |-> "",
     output_folder_path    |-> NoPath]

\* a || b || c on paths and on strings
OrPath(a, b, c) == IF a # NoPath THEN a ELSE IF b # NoPath THEN b ELSE c

OrString(a, b, c) == IF a # "" THEN a ELSE IF b # "" THEN b ELSE c

\* main, lines 79-82: command option, else SSSL_* variable, else default
MergeOptions(cmd, e) ==
    [nintendo_ca_g3_path   |-> OrPath(cmd.nintendo_ca_g3_path, e.nintendo_ca_g3_path,
                                      DefaultOptions.nintendo_ca_g3_path),
     nintendo_ca_g3_format |-> OrString(cmd.nintendo_ca_g3_format, e.nintendo_ca_g3_format,
                                        DefaultOptions.nintendo_ca_g3_format),
     ca_private_key_path   |-> OrPath(cmd.ca_private_key_path, e.ca_private_key_path,
                                      DefaultOptions.ca_private_key_path),
     site_private_key_path |-> OrPath(cmd.site_private_key_path, e.site_private_key_path,
                                      DefaultOptions.site_private_key_path),
     csr_path              |-> OrPath(cmd.csr_path, e.csr_path, DefaultOptions.csr_path),
     common_name           |-> OrString(cmd.common_name, e.common_name,
                                        DefaultOptions.common_name),
     output_folder_path    |-> OrPath(cmd.output_folder_path, e.output_folder_path,
                                      DefaultOptions.output_folder_path)]

\* path.resolve on an optional path: only when it is truthy
ResolveOptional(p) == IF p # NoPath THEN Resolve(p) ELSE p

\* validateOptions, lines 119-133: the options object after its paths were
\* resolved in place
ResolveOptions(o) ==
    [o EXCEPT !.nintendo_ca_g3_path   = Resolve(o.nintendo_ca_g3_path),
              !.ca_private_key_path   = ResolveOptional(o.ca_private_key_path),
              !.site_private_key_path = ResolveOptional(o.site_private_key_path),
              !.csr_path              = ResolveOptional(o.csr_path),
              !.output_folder_path    = Resolve(o.output_folder_path)]

\* validateOptions, lines 135-171, on the resolved options: the message of
\* the first check that fails, "" when every check passes
ValidationMessage(o, d) ==
    IF ~ExistsSync(o.nintendo_ca_g3_path, d)
        THEN "Invalid Nintendo CA - G3 path"
    ELSE IF o.nintendo_ca_g3_format # "der" /\ o.nintendo_ca_g3_format # "pem"
        THEN "Invalid Nintendo CA - G3 format: must be \"der\" or \"pem\""
    ELSE IF o.ca_private_key_path # NoPath /\ ~ExistsSync(o.ca_private_key_path, d)
        THEN "Invalid CA private key path"
    ELSE IF o.site_private_key_path # NoPath /\ ~ExistsSync(o.site_private_key_path, d)
        THEN "Invalid site certificate private key path"
    ELSE IF o.csr_path # NoPath /\ ~ExistsSync(o.csr_path, d)
        THEN "Invalid CSR key path"
    ELSE IF ~ExistsSync(o.output_folder_path, d)
        THEN "Invalid output folder path"
    ELSE ""

\* validateOptions without its check of the output folder
ValidateOptionsNoFolder(o, d) ==
    LET r == ResolveOptions(o)
    IN  ValidationMessage([r EXCEPT !.output_folder_path = Cwd], d) = ""

\* the value validateOptions returns
ValidateOptions(o, d) == ValidationMessage(ResolveOptions(o), d) = ""

-----------------------------------------------------------------------------
(* Inputs of the model *)

\* command lines of a non-interactive run
CommandOptions ==
    [nintendo_ca_g3_path   : {NoPath, <<"g3.pem">>, <<"junk.der">>, <<"nope.der">>},
     nintendo_ca_g3_format : {"", "pem", "txt"},
     ca_private_key_path   : {NoPath, <<"ca.key">>, <<"junk.key">>, <<"nope.key">>},
     site_private_key_path : {NoPath, <<"ca.key">>, <<"site.key">>, <<"junk.key">>,
                              <<"nope.key">>},
     csr_path              : {NoPath, <<"req.csr">>, <<"junk.csr">>, <<"nope.csr">>},
     common_name           : {"", "example.com"},
     output_folder_path    : {NoPath, <<"nope">>}]

\* SSSL_* variables of the environment, when any are set
SetEnv ==
    [NoOptions EXCEPT !.nintendo_ca_g3_path = <<"/", "work", "g3.pem">>,
                      !.nintendo_ca_g3_format = "pem",
                      !.common_name = "env.example"]

\* command lines tried together with SetEnv
EnvCommandOptions ==
    {NoOptions,
     [NoOptions EXCEPT !.common_name = "example.com"],
     [NoOptions EXCEPT !.nintendo_ca_g3_format = "der"]}

\* what a user may answer to one round of prompts (prompt.get fills in the
\* defaults and returns "" for an optional value left empty): the defaults,
\* a root CA path that does not exist, a root CA file that does not decode
PromptAnswers ==
    {DefaultOptions,
     [DefaultOptions EXCEPT !.nintendo_ca_g3_path = <<"nope.der">>],
     [DefaultOptions EXCEPT !.nintendo_ca_g3_path = <<"junk.der">>,
                            !.common_name = "example.com"]}

\* bytes the second half of a random buffer is made of: one below 0x80, one
\* above
ByteSamples == {66, 200}

\* buffers crypto.randomBytes(KeyIdLen) may return
RandomBuffers ==
    {[i \in 1..KeyIdLen |-> IF 2 * i <= KeyIdLen THEN 65 ELSE b] : b \in ByteSamples}

-----------------------------------------------------------------------------
(* forgeCertificateChain: the pure parts of its stages *)

\* Buffer.toString('ascii'): each byte with its highest bit unset
AsciiToString(buf) == [i \in DOMAIN buf |-> buf[i] % AsciiMask]

NotAuthorityKeyIdentifier(ext) == ext.name # "authorityKeyIdentifier"

\* lines 207-215: the extension list handed to forgedCA.setExtensions
ForgedExtensions(root, randomBytes) ==
    SelectSeq(root.extensions, NotAuthorityKeyIdentifier)
        \o <<[name                |-> "authorityKeyIdentifier",
              keyIdentifier       |-> AsciiToString(randomBytes),
              authorityCertIssuer |-> root.issuer,
              serialNumber        |-> root.serialNumber]>>

\* the forged CA with the root's issuer copied as its issuer
ForgeCertificateRootIssuer(root, publicKey, randomBytes) ==
    [CreateCertificate EXCEPT
        !.publicKey    = publicKey,
        !.serialNumber = root.serialNumber,
        !.validity     = [notBefore |-> root.validity.notBefore,
                          notAfter  |-> root.validity.notAfter],
        !.issuer       = root.issuer,
        !.subject      = root.subject,
        !.extensions   = ForgedExtensions(root, randomBytes)]

\* lines 199-215: the forged CA before it is signed
ForgeCertificate(root, publicKey, randomBytes) ==
    [CreateCertificate EXCEPT
        !.publicKey    = publicKey,
        !.serialNumber = root.serialNumber,
        !.validity     = [notBefore |-> root.validity.notBefore,
                          notAfter  |-> root.validity.notAfter],
        !.issuer       = root.subject,
        !.subject      = root.subject,
        !.extensions   = ForgedExtensions(root, randomBytes)]

\* the request keeping the subject a supplied request came with
FillRequestKeepSubject(req, publicKey, commonName) ==
    [req EXCEPT !.publicKey = publicKey,
                !.subject   = IF req.subject # <<>> THEN req.subject
                              ELSE <<Attr("commonName", commonName)>>]

\* lines 242-248: the request with the site key and the common name set
FillRequest(req, publicKey, commonName) ==
    [req EXCEPT !.publicKey = publicKey,
                !.subject   = <<Attr("commonName", commonName)>>]

\* lines 251-259: the site certificate before it is signed, from the clock
\* readings of lines 253, 254 and 255
IssueCertificate(req, ca, tz, t0, t1, t2) ==
    [CreateCertificate EXCEPT
        !.serialNumber = <<t0.day, t0.ms>>,
        !.validity     = SiteValidity(tz, t1, t2),
        !.subject      = req.subject,
        !.issuer       = ca.subject,
        !.publicKey    = req.publicKey]

\* the digests of the three signatures, lines 217, 249 and 261
CaDigest == "sha256"
CsrDigest == "sha1"
SiteDigest == "sha1"

\* the private key each certificate is signed with, lines 217 and 261
CaSigningKey(caKey, siteKey) == caKey

\* the site certificate signed with the site's own key
SiteSigningKeyOwn(caKey, siteKey) == siteKey

SiteSigningKey(caKey, siteKey) == caKey

\* the chain with the issuer first
ChainOfCaFirst(site, ca) == <<CertificateToPem(ca), "\n", CertificateToPem(site), "\n">>

\* line 263: the chain file's content
ChainOf(site, ca) == <<CertificateToPem(site), "\n", CertificateToPem(ca), "\n">>

\* the artifacts with the chain written first
OutputOrderChainFirst ==
    <<"cert-chain.pem", "forged-ca.pem", "forged-ca-private-key.pem",
      "ssl-cert.pem", "ssl-cert-private-key.pem", "csr.csr">>

\* lines 265-280: the artifacts in the order they are written
OutputOrder ==
    <<"forged-ca.pem", "forged-ca-private-key.pem", "ssl-cert.pem",
      "ssl-cert-private-key.pem", "csr.csr", "cert-chain.pem">>

\* lines 265-280: what is written under each name
OutputContent(name, ca, caKey, site, siteKey, req, ch) ==
    CASE name = "forged-ca.pem"             -> CertificateToPem(ca)
      [] name = "forged-ca-private-key.pem" -> PrivateKeyToPem(caKey)
      [] name = "ssl-cert.pem"              -> CertificateToPem(site)
      [] name = "ssl-cert-private-key.pem"  -> PrivateKeyToPem(siteKey)
      [] name = "csr.csr"                   -> CertificationRequestToPem(req)
      [] name = "cert-chain.pem"            -> ch

OutputPath(o, name) == o.output_folder_path \o <<name>>

\* the stages with both key pairs obtained before the CA is forged
StageOrderKeysFirst ==
    <<"decode", "cakey", "sitekey", "forgeca", "signca", "csr", "signcsr",
      "leaf", "signleaf", "chain", "write">>

\* the stages of forgeCertificateChain in the order of its statements
StageOrder ==
    <<"decode", "cakey", "forgeca", "signca", "sitekey", "csr", "signcsr",
      "leaf", "signleaf", "chain", "write">>

StageIndex(stage) == CHOOSE i \in 1..Len(StageOrder) : StageOrder[i] = stage

\* the statement that follows a stage
NextStage(stage) == StageOrder[StageIndex(stage) + 1]

Stages == {StageOrder[i] : i \in 1..Len(StageOrder)}

-----------------------------------------------------------------------------
(* The program *)

host == <<argv, env, zone>>

Init ==
    /\ \/ /\ argv \in [interactive : {FALSE}, options : CommandOptions]
          /\ env = NoOptions
          /\ zone \in Zones
          /\ now \in Instants
       \/ /\ argv \in [interactive : {FALSE}, options : EnvCommandOptions]
          /\ env = SetEnv
          /\ zone \in Zones
          /\ now \in Instants
       \/ /\ argv = [interactive |-> TRUE, options |-> NoOptions]
          /\ env = NoOptions
          /\ zone = SessionZone
          /\ now = SessionStart
    /\ pc = "main"
    /\ interactive = FALSE
    /\ options = NoOptions
    /\ prompts = 0
    /\ nintendoCAG3 = None
    /\ caPrivateKey = None
    /\ caPublicKey = None
    /\ forgedCA = None
    /\ sitePrivateKey = None
    /\ sitePublicKey = None
    /\ csr = None
    /\ siteCertificate = None
    /\ chain = <<>>
    /\ keyIdBytes = <<>>
    /\ issuedAt = None
    /\ written = <<>>
    /\ failedAt = ""
    /\ error = ""
    /\ disk = <<>>

\* the call forgeCertificateChain(options): its locals are declared afresh
EnterForge ==
    /\ pc' = StageOrder[1]
    /\ nintendoCAG3' = None
    /\ caPrivateKey' = None
    /\ caPublicKey' = None
    /\ forgedCA' = None
    /\ sitePrivateKey' = None
    /\ sitePublicKey' = None
    /\ csr' = None
    /\ siteCertificate' = None
    /\ chain' = <<>>
    /\ keyIdBytes' = <<>>
    /\ issuedAt' = None
    /\ written' = <<>>
    /\ failedAt' = ""

\* the message of an error thrown inside forgeCertificateChain, as
\* showPrompt's catch logs it (line 109)
ForgeError == "Error patching CA"

\* a throw that is swallowed: control goes on with the next statement
ThrowTargetSwallowed(stage) ==
    IF stage = "write" THEN "threw" ELSE StageOrder[StageIndex(stage) + 1]

\* where control goes when a statement of forgeCertificateChain throws: no
\* statement of the function catches, the error leaves the function
ThrowTarget(stage) == "threw"

Abort(stage) ==
    /\ failedAt' = stage
    /\ pc' = ThrowTarget(stage)
    /\ UNCHANGED error

\* who receives an error that left forgeCertificateChain: in interactive
\* mode showPrompt's catch, which logs it and prompts again (lines 108-112),
\* otherwise nobody: the error leaves main (line 85)
AfterThrow(isInteractive) == IF isInteractive THEN "prompt" ELSE "crashed"

Proceed(stage) ==
    /\ pc' = NextStage(stage)
    /\ UNCHANGED <<failedAt, error>>

\* main, lines 62-89
Main ==
    /\ pc = "main"
    /\ interactive' = argv.interactive
    /\ IF argv.interactive
       THEN /\ pc' = "prompt"
            /\ UNCHANGED <<options, locals, written, failedAt, error>>
       ELSE LET merged == MergeOptions(argv.options, env)
            IN  /\ options' = ResolveOptions(merged)
                /\ IF ValidateOptions(merged, disk)
                   THEN EnterForge /\ UNCHANGED error
                   ELSE /\ pc' = "crashed"
                        /\ error' = "Invalid options specified."
                        /\ UNCHANGED <<locals, written, failedAt>>
    /\ UNCHANGED <<host, now, prompts, disk>>

\* showPrompt, lines 91-116: one round of prompt.get and what follows it
ShowPrompt ==
    /\ pc = "prompt"
    /\ prompts < MaxPrompts
    /\ prompts' = prompts + 1
    /\ \E answers \in PromptAnswers :
          /\ options' = ResolveOptions(answers)
          /\ IF ValidateOptions(answers, disk)
             THEN EnterForge /\ UNCHANGED error
             ELSE /\ pc' = "prompt"
                  /\ error' = ValidationMessage(ResolveOptions(answers), disk)
                  /\ UNCHANGED <<locals, written, failedAt>>
    /\ UNCHANGED <<host, now, interactive, disk>>

\* fs.readFileSync succeeds on a file
Readable(p, d) == p \in DOMAIN InputFiles \/ p \in DOMAIN d

\* lines 175-183
Decode ==
    /\ pc = "decode"
    /\ LET p == options.nintendo_ca_g3_path
           format == IF options.nintendo_ca_g3_format = "pem" THEN "pem" ELSE "der"
       IN  IF Readable(p, disk) /\ DecodesAsCertificate(ReadFileSync(p, disk), format)
           THEN /\ nintendoCAG3' = ReadFileSync(p, disk).body
                /\ Proceed("decode")
           ELSE /\ Abort("decode")
                /\ UNCHANGED nintendoCAG3
    /\ UNCHANGED <<host, now, interactive, options, prompts, caPrivateKey,
                   caPublicKey, forgedCA, sitePrivateKey, sitePublicKey, csr,
                   siteCertificate, chain, keyIdBytes, issuedAt, written, disk>>

\* lines 185-197
CaKey ==
    /\ pc = "cakey"
    /\ LET p == options.ca_private_key_path
       IN  IF p # NoPath
           THEN IF Readable(p, disk) /\ ParsesAsPem(ReadFileSync(p, disk), "RSA PRIVATE KEY")
                THEN LET key == ReadFileSync(p, disk).body
                     IN  /\ caPrivateKey' = key
                         /\ caPublicKey' = SetRsaPublicKey(key.n, key.e)
                         /\ Proceed("cakey")
                ELSE /\ Abort("cakey")
                     /\ UNCHANGED <<caPrivateKey, caPublicKey>>
           ELSE \/ \E keyPair \in GenKeyPairs(CaKeyBits) :
                      /\ caPrivateKey' = keyPair.privateKey
                      /\ caPublicKey' = keyPair.publicKey
                      /\ Proceed("cakey")
                \/ /\ Abort("cakey")
                   /\ UNCHANGED <<caPrivateKey, caPublicKey>>
    /\ UNCHANGED <<host, now, interactive, options, prompts, nintendoCAG3,
                   forgedCA, sitePrivateKey, sitePublicKey, csr,
                   siteCertificate, chain, keyIdBytes, issuedAt, written, disk>>

\* lines 199-215
ForgeCA ==
    /\ pc = "forgeca"
    /\ \E randomBytes \in RandomBuffers :
          /\ keyIdBytes' = randomBytes
          /\ forgedCA' = ForgeCertificate(nintendoCAG3, caPublicKey, randomBytes)
    /\ Proceed("forgeca")
    /\ UNCHANGED <<host, now, interactive, options, prompts, nintendoCAG3,
                   caPrivateKey, caPublicKey, sitePrivateKey, sitePublicKey,
                   csr, siteCertificate, chain, issuedAt, written, disk>>

\* line 217
SignCA ==
    /\ pc = "signca"
    /\ \/ /\ forgedCA' = Sign(forgedCA, CaSigningKey(caPrivateKey, sitePrivateKey), CaDigest)
          /\ Proceed("signca")
       \/ /\ Abort("signca")
          /\ UNCHANGED forgedCA
    /\ UNCHANGED <<host, now, interactive, options, prompts, nintendoCAG3,
                   caPrivateKey, caPublicKey, sitePrivateKey, sitePublicKey,
                   csr, siteCertificate, chain, keyIdBytes, issuedAt, written,
                   disk>>

\* lines 219-231
SiteKey ==
    /\ pc = "sitekey"
    /\ LET p == options.site_private_key_path
       IN  IF p # NoPath
           THEN IF Readable(p, disk) /\ ParsesAsPem(ReadFileSync(p, disk), "RSA PRIVATE KEY")
                THEN LET key == ReadFileSync(p, disk).body
                     IN  /\ sitePrivateKey' = key
                         /\ sitePublicKey' = SetRsaPublicKey(key.n, key.e)
                         /\ Proceed("sitekey")
                ELSE /\ Abort("sitekey")
                     /\ UNCHANGED <<sitePrivateKey, sitePublicKey>>
           ELSE \/ \E keyPair \in GenKeyPairs(SiteKeyBits) :
                      /\ sitePrivateKey' = keyPair.privateKey
                      /\ sitePublicKey' = keyPair.publicKey
                      /\ Proceed("sitekey")
                \/ /\ Abort("sitekey")
                   /\ UNCHANGED <<sitePrivateKey, sitePublicKey>>
    /\ UNCHANGED <<host, now, interactive, options, prompts, nintendoCAG3,
                   caPrivateKey, caPublicKey, forgedCA, csr, siteCertificate,
                   chain, keyIdBytes, issuedAt, written, disk>>

\* lines 233-248
Csr ==
    /\ pc = "csr"
    /\ LET p == options.csr_path
       IN  IF p # NoPath
           THEN IF Readable(p, disk) /\ ParsesAsPem(ReadFileSync(p, disk), "CERTIFICATE REQUEST")
                THEN /\ csr' = FillRequest(ReadFileSync(p, disk).body, sitePublicKey,
                                           options.common_name)
                     /\ Proceed("csr")
                ELSE /\ Abort("csr")
                     /\ UNCHANGED csr
           ELSE /\ csr' = FillRequest(CreateCertificationRequest, sitePublicKey,
                                      options.common_name)
                /\ Proceed("csr")
    /\ UNCHANGED <<host, now, interactive, options, prompts, nintendoCAG3,
                   caPrivateKey, caPublicKey, forgedCA, sitePrivateKey,
                   sitePublicKey, siteCertificate, chain, keyIdBytes, issuedAt,
                   written, disk>>

\* line 249
SignCsr ==
    /\ pc = "signcsr"
    /\ \/ /\ csr' = Sign(csr, sitePrivateKey, CsrDigest)
          /\ Proceed("signcsr")
       \/ /\ Abort("signcsr")
          /\ UNCHANGED csr
    /\ UNCHANGED <<host, now, interactive, options, prompts, nintendoCAG3,
                   caPrivateKey, caPublicKey, forgedCA, sitePrivateKey,
                   sitePublicKey, siteCertificate, chain, keyIdBytes, issuedAt,
                   written, disk>>

\* lines 251-259: the clock is read three times
Leaf ==
    /\ pc = "leaf"
    /\ \E d1 \in Ticks, d2 \in Ticks :
          LET t0 == now
              t1 == AddMs(t0, d1)
              t2 == AddMs(t1, d2)
          IN  /\ issuedAt' = t0
              /\ now' = t2
              /\ siteCertificate' = IssueCertificate(csr, forgedCA, zone, t0, t1, t2)
    /\ Proceed("leaf")
    /\ UNCHANGED <<host, interactive, options, prompts, nintendoCAG3,
                   caPrivateKey, caPublicKey, forgedCA, sitePrivateKey,
                   sitePublicKey, csr, chain, keyIdBytes, written, disk>>

\* line 261
SignLeaf ==
    /\ pc = "signleaf"
    /\ \/ /\ siteCertificate' = Sign(siteCertificate,
                                     SiteSigningKey(caPrivateKey, sitePrivateKey), SiteDigest)
          /\ Proceed("signleaf")
       \/ /\ Abort("signleaf")
          /\ UNCHANGED siteCertificate
    /\ UNCHANGED <<host, now, interactive, options, prompts, nintendoCAG3,
                   caPrivateKey, caPublicKey, forgedCA, sitePrivateKey,
                   sitePublicKey, csr, chain, keyIdBytes, issuedAt, written,
                   disk>>

\* line 263
Chain ==
    /\ pc = "chain"
    /\ chain' = ChainOf(siteCertificate, forgedCA)
    /\ Proceed("chain")
    /\ UNCHANGED <<host, now, interactive, options, prompts, nintendoCAG3,
                   caPrivateKey, caPublicKey, forgedCA, sitePrivateKey,
                   sitePublicKey, csr, siteCertificate, keyIdBytes, issuedAt,
                   written, disk>>

\* lines 265-281: the next fs.writeFileSync; after the last one the function
\* returns
Write ==
    /\ pc = "write"
    /\ LET name == OutputOrder[Len(written) + 1]
       IN  \/ /\ disk' = (OutputPath(options, name) :>
                            OutputContent(name, forgedCA, caPrivateKey, siteCertificate,
                                          sitePrivateKey, csr, chain)) @@ disk
              /\ written' = Append(written, name)
              /\ pc' = IF Len(written) + 1 = Len(OutputOrder) THEN "done" ELSE "write"
              /\ UNCHANGED <<failedAt, error>>
           \/ /\ Abort("write")
              /\ UNCHANGED <<disk, written>>
    /\ UNCHANGED <<host, now, interactive, options, prompts, locals>>

\* the error has left forgeCertificateChain, whose locals are gone with it
Catch ==
    /\ pc = "threw"
    /\ pc' = AfterThrow(interactive)
    /\ error' = ForgeError
    /\ nintendoCAG3' = None
    /\ caPrivateKey' = None
    /\ caPublicKey' = None
    /\ forgedCA' = None
    /\ sitePrivateKey' = None
    /\ sitePublicKey' = None
    /\ csr' = None
    /\ siteCertificate' = None
    /\ chain' = <<>>
    /\ keyIdBytes' = <<>>
    /\ issuedAt' = None
    /\ written' = <<>>
    /\ failedAt' = ""
    /\ UNCHANGED <<host, now, interactive, options, prompts, disk>>

Next ==
    \/ Main
    \/ ShowPrompt
    \/ Decode
    \/ CaKey
    \/ ForgeCA
    \/ SignCA
    \/ SiteKey
    \/ Csr
    \/ SignCsr
    \/ Leaf
    \/ SignLeaf
    \/ Chain
    \/ Write
    \/ Catch

Spec == Init /\ [][Next]_vars

-----------------------------------------------------------------------------
(* Vocabulary of the properties *)

\* the object carries a signature made over its present content
Signed(obj) == obj # None /\ obj.signature # None /\ obj.signature.tbs = Tbs(obj)

\* the signature was made with this private key
SignedBy(obj, key) ==
    /\ Signed(obj)
    /\ key # None
    /\ obj.signature.n = key.n
    /\ obj.signature.d = key.d

\* a statement of forgeCertificateChain has thrown and the error is on its
\* way out of the function
Aborted == pc = "threw"

\* options, locals and written belong to one call of forgeCertificateChain:
\* the call is running, has returned, or has thrown
OfOneRun == pc \in Stages \cup {"done", "threw"}

\* the pipeline's stages in the order the source's statements have
PipelineOrder ==
    <<"decode", "cakey", "forgeca", "signca", "sitekey", "csr", "signcsr",
      "leaf", "signleaf", "chain", "write">>

PipelineIndex(stage) == CHOOSE i \in 1..Len(PipelineOrder) : PipelineOrder[i] = stage

\* the stage has run to its end in this call
StageDone(stage) ==
    CASE stage = "decode"   -> nintendoCAG3 # None
      [] stage = "cakey"    -> caPrivateKey # None /\ caPublicKey # None
      [] stage = "forgeca"  -> forgedCA # None
      [] stage = "signca"   -> Signed(forgedCA)
      [] stage = "sitekey"  -> sitePrivateKey # None /\ sitePublicKey # None
      [] stage = "csr"      -> csr # None
      [] stage = "signcsr"  -> Signed(csr)
      [] stage = "leaf"     -> siteCertificate # None
      [] stage = "signleaf" -> Signed(siteCertificate)
      [] stage = "chain"    -> chain # <<>>
      [] stage = "write"    -> written # <<>>

SixArtifacts ==
    <<"forged-ca.pem", "forged-ca-private-key.pem", "ssl-cert.pem",
      "ssl-cert-private-key.pem", "csr.csr", "cert-chain.pem">>

\* the conditions under which an option set is acceptable
Accepted(o) ==
    /\ ExistsSync(o.nintendo_ca_g3_path, disk)
    /\ o.nintendo_ca_g3_format \in {"der", "pem"}
    /\ o.ca_private_key_path # NoPath => ExistsSync(o.ca_private_key_path, disk)
    /\ o.site_private_key_path # NoPath => ExistsSync(o.site_private_key_path, disk)
    /\ o.csr_path # NoPath => ExistsSync(o.csr_path, disk)
    /\ ExistsSync(o.output_folder_path, disk)

-----------------------------------------------------------------------------
(* C1 *)

\* C1: the forged CA has the root's subject as subject and as issuer, the
\* root's serial number and validity window, and the CA key pair's public
\* key; the root's issuer and the root's own public key play no part.
C1_ForgedCAFields ==
    forgedCA # None =>
        /\ forgedCA.subject = nintendoCAG3.subject
        /\ forgedCA.issuer = nintendoCAG3.subject
        /\ forgedCA.serialNumber = nintendoCAG3.serialNumber
        /\ forgedCA.validity.notBefore = nintendoCAG3.validity.notBefore
        /\ forgedCA.validity.notAfter = nintendoCAG3.validity.notAfter
        /\ forgedCA.publicKey = caPublicKey

\* a signed forged CA of a root whose issuer differs from its subject and
\* whose key differs from the CA key
C1_Witness ==
    /\ Signed(forgedCA)
    /\ nintendoCAG3.issuer # nintendoCAG3.subject
    /\ nintendoCAG3.publicKey # caPublicKey
    /\ options.ca_private_key_path = NoPath

-----------------------------------------------------------------------------
(* C2 *)

\* C2: the forged CA's extensions are the root's without every
\* authorityKeyIdentifier, in their order, followed by one new
\* authorityKeyIdentifier with the root's issuer and serial number and, as
\* key identifier, the 16 random bytes generated for it.
C2_ForgedExtensions ==
    forgedCA # None =>
        /\ Len(keyIdBytes) = 16
        /\ forgedCA.extensions =
              SelectSeq(nintendoCAG3.extensions, NotAuthorityKeyIdentifier)
                  \o <<[name                |-> "authorityKeyIdentifier",
                        keyIdentifier       |-> keyIdBytes,
                        authorityCertIssuer |-> nintendoCAG3.issuer,
                        serialNumber        |-> nintendoCAG3.serialNumber]>>

\* what does hold of the extensions: all of the above but the key
\* identifier, which has 16 bytes, each a generated byte without its top bit
C2_ExceptKeyIdentifier ==
    forgedCA # None =>
        LET n   == Len(forgedCA.extensions)
            aki == forgedCA.extensions[n]
        IN  /\ SubSeq(forgedCA.extensions, 1, n - 1) =
                  SelectSeq(nintendoCAG3.extensions, NotAuthorityKeyIdentifier)
            /\ aki.name = "authorityKeyIdentifier"
            /\ aki.authorityCertIssuer = nintendoCAG3.issuer
            /\ aki.serialNumber = nintendoCAG3.serialNumber
            /\ Len(aki.keyIdentifier) = 16
            /\ \A i \in 1..16 : aki.keyIdentifier[i] = keyIdBytes[i] % 128

\* a forged CA of the root with two authorityKeyIdentifier entries, made
\* with a buffer that holds a byte above 0x7f
C2_Witness ==
    /\ forgedCA # None
    /\ Len(nintendoCAG3.extensions) = 5
    /\ \E i \in 1..Len(keyIdBytes) : keyIdBytes[i] >= 128

-----------------------------------------------------------------------------
(* C3 *)

\* C3 as stated: once the site certificate is signed, it and the forged CA
\* are signed with the run's CA private key, the forged CA embeds that key's
\* public half, the forged CA verifies under its embedded key, and the site
\* certificate verifies under the forged CA's key and never under the site
\* key.
C3_Original ==
    Signed(siteCertificate) =>
        /\ SignedBy(forgedCA, caPrivateKey)
        /\ SignedBy(siteCertificate, caPrivateKey)
        /\ forgedCA.publicKey = [n |-> caPrivateKey.n, e |-> caPrivateKey.e]
        /\ Verifies(forgedCA, forgedCA.publicKey)
        /\ Verifies(siteCertificate, forgedCA.publicKey)
        /\ ~Verifies(siteCertificate, sitePublicKey)

\* C3 as amended: the same, except that the site certificate verifies under
\* the site key exactly when the site key is the CA key itself.
C3_SignedWithCaKey ==
    Signed(siteCertificate) =>
        /\ SignedBy(forgedCA, caPrivateKey)
        /\ SignedBy(siteCertificate, caPrivateKey)
        /\ forgedCA.publicKey = [n |-> caPrivateKey.n, e |-> caPrivateKey.e]
        /\ Verifies(forgedCA, forgedCA.publicKey)
        /\ Verifies(siteCertificate, forgedCA.publicKey)
        /\ Verifies(siteCertificate, sitePublicKey) <=> sitePrivateKey = caPrivateKey

\* a finished run with a supplied CA key unrelated to the root's key and a
\* supplied site key that is another key
C3_Witness ==
    /\ pc = "done"
    /\ options.ca_private_key_path # NoPath
    /\ options.site_private_key_path # NoPath
    /\ caPublicKey # nintendoCAG3.publicKey
    /\ sitePrivateKey # caPrivateKey
    /\ Verifies(siteCertificate, caPublicKey)

-----------------------------------------------------------------------------
(* C4 *)

\* C4: with or without a supplied request, the request has the single
\* attribute commonName = the configured common name as subject and the site
\* public key as key, it is that request that is signed and written, and the
\* site certificate takes its subject and key from it and its issuer from
\* the forged CA's subject.
C4_RequestAndLeaf ==
    OfOneRun =>
        /\ ~interactive =>
              options.common_name =
                  (IF argv.options.common_name # "" THEN argv.options.common_name
                   ELSE IF env.common_name # "" THEN env.common_name ELSE "*")
        /\ csr # None =>
              /\ csr.subject = <<[name |-> "commonName", value |-> options.common_name]>>
              /\ csr.publicKey = sitePublicKey
              /\ sitePublicKey = [n |-> sitePrivateKey.n, e |-> sitePrivateKey.e]
        /\ siteCertificate # None =>
              /\ SignedBy(csr, sitePrivateKey)
              /\ siteCertificate.subject = csr.subject
              /\ siteCertificate.issuer = forgedCA.subject
              /\ siteCertificate.publicKey = csr.publicKey
        /\ Len(written) >= 5 =>
              disk[options.output_folder_path \o <<"csr.csr">>] =
                  CertificationRequestToPem(csr)

\* a finished run that was given a request for another name and key
C4_Witness ==
    /\ pc = "done"
    /\ options.csr_path # NoPath
    /\ options.common_name = "example.com"
    /\ csr.attributes # <<>>
    /\ siteCertificate.subject = <<[name |-> "commonName", value |-> "example.com"]>>

-----------------------------------------------------------------------------
(* C5 *)

\* C5: the site certificate's notAfter is exactly 3650 days after its
\* notBefore, and notBefore is the instant of issuance.
C5_ExactWindow ==
    siteCertificate # None =>
        /\ DateDiff(siteCertificate.validity.notAfter,
                    siteCertificate.validity.notBefore) = [days |-> 3650, ms |-> 0]
        /\ siteCertificate.validity.notBefore = issuedAt

\* the same of the window as the written certificate holds it, in whole
\* seconds
C5_ExactWindowInSeconds ==
    siteCertificate # None =>
        DateDiff(DerTime(siteCertificate.validity.notAfter),
                 DerTime(siteCertificate.validity.notBefore)) = [days |-> 3650, ms |-> 0]

\* a site certificate issued while the clock stood still, whose window is
\* 3650 days
C5_Witness ==
    /\ siteCertificate # None
    /\ siteCertificate.validity.notBefore = issuedAt
    /\ now = issuedAt
    /\ DateDiff(siteCertificate.validity.notAfter,
                siteCertificate.validity.notBefore) = [days |-> 3650, ms |-> 0]

-----------------------------------------------------------------------------
(* C6 *)

\* C6: when a stage before the writes throws, the run is over at that stage:
\* no statement of the pipeline runs after the throw, neither that stage nor
\* any later one has produced its result, no artifact has been written (in a
\* non-interactive run the disk holds no output at all), and the error goes
\* to the caller, which writes nothing; in particular so when the root CA
\* does not decode.
C6_AbortBeforeWrites ==
    /\ [](failedAt # "" <=> pc = "threw")
    /\ []((Aborted /\ failedAt # "write") =>
            /\ written = <<>>
            /\ ~interactive => disk = <<>>
            /\ \A i \in 1..Len(PipelineOrder) :
                  i >= PipelineIndex(failedAt) => ~StageDone(PipelineOrder[i])
            /\ \A i \in 1..Len(PipelineOrder) :
                  i < PipelineIndex(failedAt) => StageDone(PipelineOrder[i]))
    /\ [][Aborted =>
            /\ pc' = (IF interactive THEN "prompt" ELSE "crashed")
            /\ error' = "Error patching CA"
            /\ disk' = disk]_vars

\* a run that ended when signing the site certificate threw
C6_Witness ==
    /\ Aborted
    /\ failedAt = "signleaf"
    /\ siteCertificate # None
    /\ written = <<>>

\* a run that ended because the root CA file did not decode
C6_WitnessDecode ==
    /\ Aborted
    /\ failedAt = "decode"
    /\ nintendoCAG3 = None
    /\ disk = <<>>

-----------------------------------------------------------------------------
(* C7 *)

\* C7: the artifacts written in a run are always the first ones of the fixed
\* order; when a write throws the run is over, every artifact written before
\* it is on disk with its content, and nothing was written after it.
C7_WrittenPrefix ==
    /\ Len(written) <= 6
    /\ \A i \in 1..Len(written) : written[i] = SixArtifacts[i]
    /\ pc = "write" => failedAt = ""
    /\ (Aborted /\ failedAt = "write") =>
          /\ Len(written) < 6
          /\ \A i \in 1..Len(written) :
                /\ options.output_folder_path \o <<written[i]>> \in DOMAIN disk
                /\ disk[options.output_folder_path \o <<written[i]>>] =
                      OutputContent(SixArtifacts[i], forgedCA, caPrivateKey,
                                    siteCertificate, sitePrivateKey, csr, chain)
          /\ ~interactive =>
                DOMAIN disk = {options.output_folder_path \o <<written[i]>> :
                                  i \in 1..Len(written)}

\* a run whose fourth write threw, three artifacts on disk
C7_Witness ==
    /\ Aborted
    /\ failedAt = "write"
    /\ written = <<"forged-ca.pem", "forged-ca-private-key.pem", "ssl-cert.pem">>
    /\ options.output_folder_path \o <<"ssl-cert.pem">> \in DOMAIN disk

-----------------------------------------------------------------------------
(* C8 *)

\* C8: a run that returns has written the six artifacts, each once, and the
\* chain file holds the PEM of ssl-cert.pem, a newline, the PEM of
\* forged-ca.pem and a newline, these being the PEMs of the site certificate
\* and of the forged CA.
C8_SixArtifacts ==
    pc = "done" =>
        LET at(name) == disk[options.output_folder_path \o <<name>>]
        IN  /\ failedAt = ""
            /\ written = SixArtifacts
            /\ \A i, j \in 1..Len(written) : written[i] = written[j] => i = j
            /\ \A i \in 1..6 :
                  options.output_folder_path \o <<SixArtifacts[i]>> \in DOMAIN disk
            /\ ~interactive => Cardinality(DOMAIN disk) = 6
            /\ at("ssl-cert.pem") = CertificateToPem(siteCertificate)
            /\ at("forged-ca.pem") = CertificateToPem(forgedCA)
            /\ at("cert-chain.pem") =
                  <<at("ssl-cert.pem"), "\n", at("forged-ca.pem"), "\n">>
            /\ at("forged-ca-private-key.pem") = PrivateKeyToPem(caPrivateKey)
            /\ at("ssl-cert-private-key.pem") = PrivateKeyToPem(sitePrivateKey)

\* a run that returned, its leaf and its CA being different certificates
C8_Witness ==
    /\ pc = "done"
    /\ Len(written) = 6
    /\ CertificateToPem(siteCertificate) # CertificateToPem(forgedCA)
    /\ options.output_folder_path \o <<"cert-chain.pem">> \in DOMAIN disk

-----------------------------------------------------------------------------
(* C9 *)

\* C9 as stated: both key pairs have been obtained when the CA Forger has
\* built the forged CA.
C9_Original ==
    StageDone("forgeca") => StageDone("cakey") /\ StageDone("sitekey")

\* C9 as amended: the stages run in the order decoder, CA key pair, CA forger
\* (build, sign), site key pair, CSR handler (fill, sign), leaf issuer (build,
\* sign), chain, writes: a stage has run only when every stage before it in
\* that order has, so none uses a value of a later one; the CA key pair alone
\* precedes the CA forger, the site key pair follows it.
C9_StageOrder ==
    /\ \A i, j \in 1..Len(PipelineOrder) :
          (i < j /\ StageDone(PipelineOrder[j])) => StageDone(PipelineOrder[i])
    /\ pc \in Stages =>
          /\ \A i \in 1..Len(PipelineOrder) :
                i < PipelineIndex(pc) => StageDone(PipelineOrder[i])
          /\ \A i \in 1..Len(PipelineOrder) :
                i > PipelineIndex(pc) => ~StageDone(PipelineOrder[i])
    /\ pc \in {"forgeca", "signca"} => sitePrivateKey = None /\ sitePublicKey = None

\* the forged CA is signed and the site key pair is not there yet
C9_Witness ==
    /\ pc = "sitekey"
    /\ Signed(forgedCA)
    /\ caPrivateKey # None
    /\ sitePrivateKey = None

-----------------------------------------------------------------------------
(* C10 *)

\* C10: forgeCertificateChain starts only from main or showPrompt, with
\* options validateOptions has just accepted, and runs only on acceptable
\* options; a non-interactive run with rejected options ends with the error
\* 'Invalid options specified.' and never forges; in interactive mode a
\* rejected option set and a forging error both lead to the prompt again,
\* the program never ends by an error, and it is done only after a forge
\* that returned without error.
C10_FrontEnd ==
    /\ [](pc \in Stages => Accepted(options) /\ failedAt = "")
    /\ [][(pc' = "decode" /\ pc # "decode") =>
              /\ pc \in {"main", "prompt"}
              /\ Accepted(options')
              /\ pc = "main" => ~argv.interactive]_vars
    /\ [][(pc = "main" /\ ~argv.interactive /\ ~Accepted(options')) =>
              /\ pc' = "crashed"
              /\ error' = "Invalid options specified."
              /\ UNCHANGED <<locals, written, disk>>]_vars
    /\ [][pc = "crashed" => UNCHANGED vars]_vars
    /\ [][(pc = "prompt" /\ prompts' # prompts /\ ~Accepted(options')) =>
              pc' = "prompt" /\ UNCHANGED <<locals, written, disk>>]_vars
    /\ [][(interactive /\ pc = "threw") => pc' = "prompt"]_vars
    /\ [](interactive => pc \in Stages \cup {"prompt", "threw", "done"})
    /\ [](pc = "done" => failedAt = "" /\ Len(written) = 6)
    /\ [][pc = "done" => UNCHANGED vars]_vars

\* an interactive session done at its second prompt: the first round was
\* rejected or its forge threw
C10_Witness ==
    /\ interactive
    /\ pc = "done"
    /\ prompts = 2
    /\ Len(written) = 6

\* a non-interactive run ended by rejected options
C10_WitnessRejected ==
    /\ ~interactive
    /\ pc = "crashed"
    /\ error = "Invalid options specified."
    /\ disk = <<>>

====
